---- MODULE Spec2Model ----
(***************************************************************************)
(* ToyPEGParser (src/src/peg_parser.py) as a state machine.                *)
(*                                                                         *)
(* The parser is a set of mutually recursive methods over one mutable      *)
(* cursor (self.pos, self.current_token).  The model keeps the cursor, the *)
(* call stack of the methods that are active, and the outcome the method   *)
(* that finished last handed to its caller (a returned value or a raised   *)
(* SyntaxError).  One action per method; a step of a method runs from the  *)
(* point where it was entered or resumed up to its next call, its return   *)
(* or its raise.                                                           *)
(*                                                                         *)
(* Python values: a dict is a record, a list is a sequence, {} and [] are  *)
(* both <<>> (they are only ever tested for truthiness); a returned value  *)
(* carries the flag isinstance(value, dict).  A SyntaxError is the         *)
(* sequence of the messages of its cause chain, outermost first; a message *)
(* is the tuple of the parts of its f-string (line and column left out).   *)
(*                                                                         *)
(* Besides the locals of its method, a frame records the cursor at which   *)
(* the method was entered (at) and the calls it has made so far with their *)
(* outcomes (trace); ret names the frame that finished (by).  The call     *)
(* mechanism keeps these records, the methods never read them.             *)
(* steps counts the calls, returns and raises made since the entry method  *)
(* was called.                                                             *)
(***************************************************************************)
EXTENDS Integers, Sequences, FiniteSets, TLC

VARIABLES tokens, pos, current_token, stack, ret, entry, given, steps

vars == <<tokens, pos, current_token, stack, ret, entry, given, steps>>

(***************************************************************************)
(* Tokens (src/src/peg_token.py)                                           *)
(***************************************************************************)
None == "<None>"

Token(type, value) == [type |-> type, value |-> value]

EOF == Token("EOF", None)

T_VAR == Token("VAR", "var")
T_IF == Token("IF", "if")
T_ELSE == Token("ELSE", "else")
T_WHILE == Token("WHILE", "while")
T_PRINT == Token("PRINT", "print")
T_ASSIGN == Token("ASSIGN", "=")
T_SEMI == Token("SEMICOLON", ";")
T_LPAREN == Token("LPAREN", "(")
T_RPAREN == Token("RPAREN", ")")
T_LBRACE == Token("LBRACE", "{")
T_RBRACE == Token("RBRACE", "}")
T_PLUS == Token("PLUS", "+")
T_MINUS == Token("MINUS", "-")
T_MUL == Token("MUL", "*")
T_DIV == Token("DIV", "/")
T_LT == Token("LT", "<")
T_GT == Token("GT", ">")
T_LTE == Token("LTE", "<=")
T_GTE == Token("GTE", ">=")
T_EQ == Token("EQ", "==")
T_NEQ == Token("NEQ", "!=")
T_AND == Token("AND", "&&")
T_OR == Token("OR", "||")
Id(name) == Token("IDENTIFIER", name)
Num(text) == Token("NUMBER", text)

\* float(num.value) on the literals the inputs use
Float(text) ==
    CASE text = "0" -> 0
      [] text = "1" -> 1
      [] text = "5" -> 5
      [] text = "10" -> 10

(***************************************************************************)
(* Cursor: advance_to_next_token, consume_token, consume_token_or_fail     *)
(***************************************************************************)
Cursor == [pos |-> pos, cur |-> current_token]

advance_to_next_token(c) ==
    LET p == c.pos + 1
    IN  [pos |-> p, cur |-> IF p < Len(tokens) THEN tokens[p + 1] ELSE EOF]

\* faulty variant of consume_token: the value asked for is not compared
consume_token_any_value(c, token_type, value) ==
    IF c.cur.type = token_type
    THEN [ok |-> TRUE, token |-> c.cur, c |-> advance_to_next_token(c)]
    ELSE [ok |-> FALSE, token |-> EOF, c |-> c]

\* faulty variant of consume_token: the end-of-stream token passes for any
\* type
consume_token_eof_matches(c, token_type, value) ==
    IF c.cur.type \in {token_type, "EOF"}
    THEN [ok |-> TRUE, token |-> c.cur, c |-> advance_to_next_token(c)]
    ELSE [ok |-> FALSE, token |-> EOF, c |-> c]

\* value = None stands for the default value=None
consume_token(c, token_type, value) ==
    IF c.cur.type = token_type /\ (value = None \/ c.cur.value = value)
    THEN [ok |-> TRUE, token |-> c.cur, c |-> advance_to_next_token(c)]
    ELSE [ok |-> FALSE, token |-> EOF, c |-> c]

Truthy(s) == s # None /\ s # ""

\* faulty variant of consume_token_or_fail: the message gives the expected
\* token as the one found
consume_token_or_fail_found_expected(c, token_type, value, err_msg) ==
    LET t == consume_token(c, token_type, value)
        expected == IF Truthy(value) THEN value ELSE token_type
        msg == IF Truthy(err_msg) THEN err_msg ELSE "Syntax error"
    IN  [ok |-> t.ok, token |-> t.token, c |-> t.c,
         exc |-> << <<msg, ". Expected ", expected, ", found ", expected>> >>]

consume_token_or_fail(c, token_type, value, err_msg) ==
    LET t == consume_token(c, token_type, value)
        expected == IF Truthy(value) THEN value ELSE token_type
        found == IF Truthy(c.cur.value) THEN c.cur.value ELSE c.cur.type
        msg == IF Truthy(err_msg) THEN err_msg ELSE "Syntax error"
    IN  [ok |-> t.ok, token |-> t.token, c |-> t.c,
         exc |-> << <<msg, ". Expected ", expected, ", found ", found>> >>]

(***************************************************************************)
(* Calls: symbols, frames, and what a step of a method ends with           *)
(***************************************************************************)
Sym(fn, args) == [fn |-> fn, args |-> args]
Rule(fn) == Sym(fn, <<>>)

NewFrame(sym) ==
    [fn |-> sym.fn, args |-> sym.args, pc |-> "start",
     start_pos |-> 0, start_token |-> EOF,
     i |-> 0, results |-> <<>>, first_result |-> <<>>,
     id_token |-> EOF, left |-> <<>>, op |-> "",
     condition_result |-> <<>>, if_body_result |-> <<>>,
     at |-> [pos |-> 0, cur |-> EOF], trace |-> <<>>]

\* the frame of a call made with the cursor at c
Enter(sym, c) == [NewFrame(sym) EXCEPT !.at = c]

NoRet ==
    [kind |-> "none", val |-> <<>>, isdict |-> FALSE, exc |-> <<>>,
     by |-> NewFrame(Sym("", <<>>))]

Top == stack[Len(stack)]

\* faulty variant of Saved: only self.pos is put back
Saved_pos_only(f) == [pos |-> f.start_pos, cur |-> current_token]

\* faulty variant of Saved: the rollback rewinds to the start of the input
Saved_at_origin(f) ==
    [pos |-> 0, cur |-> IF tokens # <<>> THEN tokens[1] ELSE EOF]

\* the saved cursor, as the rollback assigns it to self.pos, self.current_token
Saved(f) == [pos |-> f.start_pos, cur |-> f.start_token]
Save(f, c) == [f EXCEPT !.start_pos = c.pos, !.start_token = c.cur]

CallOut(c, f, sym) ==
    [op |-> "call", c |-> c, frame |-> f, sym |-> sym,
     val |-> <<>>, isdict |-> FALSE, exc |-> <<>>]
ReturnDict(c, v) ==
    [op |-> "return", c |-> c, frame |-> <<>>, sym |-> <<>>,
     val |-> v, isdict |-> TRUE, exc |-> <<>>]
ReturnList(c, v) ==
    [op |-> "return", c |-> c, frame |-> <<>>, sym |-> <<>>,
     val |-> v, isdict |-> FALSE, exc |-> <<>>]
ReturnAs(c, v, isdict) ==
    [op |-> "return", c |-> c, frame |-> <<>>, sym |-> <<>>,
     val |-> v, isdict |-> isdict, exc |-> <<>>]
RaiseOut(c, e) ==
    [op |-> "raise", c |-> c, frame |-> <<>>, sym |-> <<>>,
     val |-> <<>>, isdict |-> FALSE, exc |-> e]

Raised(r) == r.kind = "raise"

\* what the caller's trace keeps of a call that has finished
Outcome(f, o) ==
    [sym |-> Sym(f.fn, f.args), from |-> f.at, to |-> o.c,
     kind |-> IF o.op = "return" THEN "value" ELSE "raise",
     val |-> o.val, isdict |-> o.isdict]

Apply(o) ==
    LET below == SubSeq(stack, 1, Len(stack) - 1)
    IN  /\ pos' = o.c.pos
        /\ current_token' = o.c.cur
        /\ stack' =
              IF o.op = "call"
              THEN below \o <<o.frame, Enter(o.sym, o.c)>>
              ELSE IF below = <<>>
              THEN <<>>
              ELSE [below EXCEPT ![Len(below)].trace =
                                     Append(@, Outcome(Top, o))]
        /\ ret' = CASE o.op = "call" -> NoRet
                    [] o.op = "return" ->
                         [kind |-> "value", val |-> o.val,
                          isdict |-> o.isdict, exc |-> <<>>, by |-> Top]
                    [] o.op = "raise" ->
                         [kind |-> "raise", val |-> <<>>,
                          isdict |-> FALSE, exc |-> o.exc, by |-> Top]
        /\ steps' = steps + 1
        /\ UNCHANGED <<tokens, entry, given>>

(***************************************************************************)
(* The cursor primitives as methods called on their own.  The token        *)
(* consume_token returns is the record of the token; the None it returns   *)
(* on no match is <<>>, like every other empty value                       *)
(***************************************************************************)
consume_token_call(f, c, r) ==
    LET t == consume_token(c, f.args[1], f.args[2])
    IN  IF t.ok THEN ReturnAs(t.c, t.token, FALSE) ELSE ReturnAs(t.c, <<>>, FALSE)

consume_token_or_fail_call(f, c, r) ==
    LET t == consume_token_or_fail(c, f.args[1], f.args[2], f.args[3])
    IN  IF t.ok THEN ReturnAs(t.c, t.token, FALSE) ELSE RaiseOut(t.c, t.exc)

(***************************************************************************)
(* PEG combinators                                                         *)
(***************************************************************************)
\* faulty variant of parse_sequence: the except clause does not roll back
parse_sequence_no_rollback(f, c, r) ==
    IF f.pc = "start" /\ f.args = <<>>
    THEN RaiseOut(c, << <<"Syntax error. Empty sequence.">> >>)
    ELSE IF f.pc = "start"
    THEN CallOut(c, [Save(f, c) EXCEPT !.pc = "symbol", !.i = 1], f.args[1])
    ELSE IF Raised(r)
    THEN RaiseOut(c,
             << <<"Syntax error. One symbol parsing failed within sequence.">> >>
             \o r.exc)
    ELSE LET results == Append(f.results, r.val)
         IN  IF f.i < Len(f.args)
             THEN CallOut(c, [f EXCEPT !.results = results, !.i = f.i + 1],
                          f.args[f.i + 1])
             ELSE ReturnList(c, results)

parse_sequence(f, c, r) ==
    IF f.pc = "start" /\ f.args = <<>>
    THEN RaiseOut(c, << <<"Syntax error. Empty sequence.">> >>)
    ELSE IF f.pc = "start"
    THEN CallOut(c, [Save(f, c) EXCEPT !.pc = "symbol", !.i = 1], f.args[1])
    ELSE IF Raised(r)
    THEN RaiseOut(Saved(f),
             << <<"Syntax error. One symbol parsing failed within sequence.">> >>
             \o r.exc)
    ELSE LET results == Append(f.results, r.val)
         IN  IF f.i < Len(f.args)
             THEN CallOut(c, [f EXCEPT !.results = results, !.i = f.i + 1],
                          f.args[f.i + 1])
             ELSE ReturnList(c, results)

\* faulty variant of parse_ordered_choice: the except clause does not roll back
parse_ordered_choice_no_rollback(f, c, r) ==
    IF f.pc = "start" /\ f.args = <<>>
    THEN RaiseOut(c, << <<"Syntax error. Empty ordered choice.">> >>)
    ELSE IF f.pc = "start"
    THEN CallOut(c, [Save(f, c) EXCEPT !.pc = "symbol", !.i = 1], f.args[1])
    ELSE IF Raised(r)
    THEN IF f.i < Len(f.args)
         THEN CallOut(c, [f EXCEPT !.i = f.i + 1], f.args[f.i + 1])
         ELSE ReturnList(c, <<>>)
    ELSE ReturnList(c, <<r.val>>)

parse_ordered_choice(f, c, r) ==
    IF f.pc = "start" /\ f.args = <<>>
    THEN RaiseOut(c, << <<"Syntax error. Empty ordered choice.">> >>)
    ELSE IF f.pc = "start"
    THEN CallOut(c, [Save(f, c) EXCEPT !.pc = "symbol", !.i = 1], f.args[1])
    ELSE IF Raised(r)
    THEN IF f.i < Len(f.args)
         THEN CallOut(Saved(f), [f EXCEPT !.i = f.i + 1], f.args[f.i + 1])
         ELSE ReturnList(Saved(f), <<>>)
    ELSE ReturnList(c, <<r.val>>)

\* faulty variant of parse_zero_or_more: the except clause does not roll back
parse_zero_or_more_no_rollback(f, c, r) ==
    IF f.pc = "start"
    THEN CallOut(c, [Save(f, c) EXCEPT !.pc = "symbol"], f.args[1])
    ELSE IF Raised(r)
    THEN ReturnList(c, f.results)
    ELSE LET results == Append(f.results, r.val)
         IN  IF f.start_pos = c.pos
             THEN ReturnList(c, results)
             ELSE CallOut(c, [Save(f, c) EXCEPT !.results = results], f.args[1])

\* faulty variant of parse_zero_or_more: no check that the position moved
parse_zero_or_more_no_guard(f, c, r) ==
    IF f.pc = "start"
    THEN CallOut(c, [Save(f, c) EXCEPT !.pc = "symbol"], f.args[1])
    ELSE IF Raised(r)
    THEN ReturnList(Saved(f), f.results)
    ELSE CallOut(c, [Save(f, c) EXCEPT !.results = Append(f.results, r.val)],
                 f.args[1])

parse_zero_or_more(f, c, r) ==
    IF f.pc = "start"
    THEN CallOut(c, [Save(f, c) EXCEPT !.pc = "symbol"], f.args[1])
    ELSE IF Raised(r)
    THEN ReturnList(Saved(f), f.results)
    ELSE LET results == Append(f.results, r.val)
         IN  IF f.start_pos = c.pos
             THEN ReturnList(c, results)
             ELSE CallOut(c, [Save(f, c) EXCEPT !.results = results], f.args[1])

\* faulty variant of parse_one_or_more: the except clause does not roll back
parse_one_or_more_no_rollback(f, c, r) ==
    IF f.pc = "start"
    THEN CallOut(c, [Save(f, c) EXCEPT !.pc = "first"], f.args[1])
    ELSE IF f.pc = "first"
    THEN IF Raised(r)
         THEN RaiseOut(c,
                  << <<"Syntax error. 1st symbol parsing failed in 'one_or_more'.">> >>
                  \o r.exc)
         ELSE IF r.val = <<>>
         THEN ReturnList(c, <<>>)
         ELSE CallOut(c,
                  [f EXCEPT !.pc = "rest",
                            !.first_result =
                                IF r.isdict THEN <<r.val>> ELSE r.val],
                  Sym("parse_zero_or_more", <<f.args[1]>>))
    ELSE \* parse_zero_or_more has returned a list
         IF r.val = <<>>
         THEN ReturnList(c, f.first_result)
         ELSE ReturnList(c, f.first_result \o r.val)

\* faulty variant of parse_one_or_more: the rest results are dropped
parse_one_or_more_first_only(f, c, r) ==
    IF f.pc = "start"
    THEN CallOut(c, [Save(f, c) EXCEPT !.pc = "first"], f.args[1])
    ELSE IF f.pc = "first"
    THEN IF Raised(r)
         THEN RaiseOut(Saved(f),
                  << <<"Syntax error. 1st symbol parsing failed in 'one_or_more'.">> >>
                  \o r.exc)
         ELSE IF r.val = <<>>
         THEN ReturnList(c, <<>>)
         ELSE CallOut(c,
                  [f EXCEPT !.pc = "rest",
                            !.first_result =
                                IF r.isdict THEN <<r.val>> ELSE r.val],
                  Sym("parse_zero_or_more", <<f.args[1]>>))
    ELSE \* parse_zero_or_more has returned a list
         IF r.val = <<>>
         THEN ReturnList(c, f.first_result)
         ELSE ReturnList(c, f.first_result)

parse_one_or_more(f, c, r) ==
    IF f.pc = "start"
    THEN CallOut(c, [Save(f, c) EXCEPT !.pc = "first"], f.args[1])
    ELSE IF f.pc = "first"
    THEN IF Raised(r)
         THEN RaiseOut(Saved(f),
                  << <<"Syntax error. 1st symbol parsing failed in 'one_or_more'.">> >>
                  \o r.exc)
         ELSE IF r.val = <<>>
         THEN ReturnList(c, <<>>)
         ELSE CallOut(c,
                  [f EXCEPT !.pc = "rest",
                            !.first_result =
                                IF r.isdict THEN <<r.val>> ELSE r.val],
                  Sym("parse_zero_or_more", <<f.args[1]>>))
    ELSE \* parse_zero_or_more has returned a list
         IF r.val = <<>>
         THEN ReturnList(c, f.first_result)
         ELSE ReturnList(c, f.first_result \o r.val)

\* faulty variant of parse_optional: the except clause does not roll back
parse_optional_no_rollback(f, c, r) ==
    IF f.pc = "start"
    THEN CallOut(c, [Save(f, c) EXCEPT !.pc = "symbol"], f.args[1])
    ELSE IF Raised(r)
    THEN ReturnList(c, <<>>)
    ELSE ReturnAs(c, r.val, r.isdict)

parse_optional(f, c, r) ==
    IF f.pc = "start"
    THEN CallOut(c, [Save(f, c) EXCEPT !.pc = "symbol"], f.args[1])
    ELSE IF Raised(r)
    THEN ReturnList(Saved(f), <<>>)
    ELSE ReturnAs(c, r.val, r.isdict)

(***************************************************************************)
(* LHS symbols: statements                                                 *)
(***************************************************************************)
\* faulty variant of StatementChoice: a bare expression is a statement too
StatementChoice_with_expression ==
    <<Rule("var_decl"), Rule("assignment"), Rule("if_stmt"),
      Rule("while_loop"), Rule("print_stmt"), Rule("block"),
      Rule("expression")>>

StatementChoice ==
    <<Rule("var_decl"), Rule("assignment"), Rule("if_stmt"),
      Rule("while_loop"), Rule("print_stmt"), Rule("block")>>

\* program ::= statement+
program(f, c, r) ==
    IF f.pc = "start"
    THEN CallOut(c, [f EXCEPT !.pc = "stmts"],
                 Sym("parse_one_or_more", <<Rule("statement")>>))
    ELSE IF Raised(r)
    THEN RaiseOut(c, r.exc)
    ELSE IF r.val = <<>>
    THEN RaiseOut(c, << <<"Empty program">> >>)
    ELSE ReturnDict(c, [type |-> "program", body |-> r.val])

\* faulty variant of statement: no alternative matching is not a failure
statement_returns_empty(f, c, r) ==
    IF f.pc = "start"
    THEN CallOut(c, [f EXCEPT !.pc = "choice"],
                 Sym("parse_ordered_choice", StatementChoice))
    ELSE IF Raised(r)
    THEN RaiseOut(c, r.exc)
    ELSE IF r.val = <<>>
    THEN ReturnList(c, <<>>)
    ELSE ReturnDict(c, r.val[1])

\* statement ::= var_decl | assignment | if_stmt | while_loop | print_stmt | block
statement(f, c, r) ==
    IF f.pc = "start"
    THEN CallOut(c, [f EXCEPT !.pc = "choice"],
                 Sym("parse_ordered_choice", StatementChoice))
    ELSE IF Raised(r)
    THEN RaiseOut(c, r.exc)
    ELSE IF r.val = <<>>
    THEN RaiseOut(c, << <<"Expected statement">> >>)
    ELSE ReturnDict(c, r.val[1])

\* block ::= '{' statement* '}'
block(f, c, r) ==
    IF f.pc = "start"
    THEN LET t == consume_token_or_fail(c, "LBRACE", "{",
                                        "Expected '{' to start block")
         IN  IF ~t.ok
             THEN RaiseOut(c, t.exc)
             ELSE CallOut(t.c, [f EXCEPT !.pc = "stmts"],
                          Sym("parse_zero_or_more", <<Rule("statement")>>))
    ELSE IF Raised(r)
    THEN RaiseOut(c, r.exc)
    ELSE LET t == consume_token_or_fail(c, "RBRACE", "}",
                                        "Expected '}' to end block")
         IN  IF ~t.ok
             THEN RaiseOut(c, t.exc)
             ELSE ReturnDict(t.c, [type |-> "block", body |-> r.val])

\* the tail of var_decl: the ';' and the node
var_decl_end(c, id_token, expr_result) ==
    LET t == consume_token_or_fail(c, "SEMICOLON", ";",
                                   "Expected ';' after declaration")
    IN  IF ~t.ok
        THEN RaiseOut(c, t.exc)
        ELSE ReturnDict(t.c, [type |-> "var_decl", name |-> id_token.value,
                              init |-> expr_result])

\* faulty variant of var_decl: the keyword 'var' may be left out
var_decl_optional_var(f, c, r) ==
    IF f.pc = "start"
    THEN LET v == consume_token(c, "VAR", "var")
             t1 == [ok |-> TRUE, token |-> v.token, c |-> v.c, exc |-> <<>>]
             t2 == consume_token_or_fail(t1.c, "IDENTIFIER", None,
                       "Expected variable name in declaration")
             t3 == consume_token(t2.c, "ASSIGN", "=")
         IN  IF ~t1.ok THEN RaiseOut(c, t1.exc)
             ELSE IF ~t2.ok THEN RaiseOut(t1.c, t2.exc)
             ELSE IF t3.ok
             THEN CallOut(t3.c,
                      [Save(f, c) EXCEPT !.pc = "init", !.id_token = t2.token],
                      Rule("expression"))
             ELSE var_decl_end(t2.c, t2.token, <<>>)
    ELSE IF Raised(r)
    THEN RaiseOut(Saved(f),
             << <<"Expected expression after '=' in declaration">> >> \o r.exc)
    ELSE var_decl_end(c, f.id_token, r.val)

\* var_decl ::= 'var' IDENTIFIER ('=' expression)? ';'
var_decl(f, c, r) ==
    IF f.pc = "start"
    THEN LET t1 == consume_token_or_fail(c, "VAR", "var", None)
             t2 == consume_token_or_fail(t1.c, "IDENTIFIER", None,
                       "Expected variable name in declaration")
             t3 == consume_token(t2.c, "ASSIGN", "=")
         IN  IF ~t1.ok THEN RaiseOut(c, t1.exc)
             ELSE IF ~t2.ok THEN RaiseOut(t1.c, t2.exc)
             ELSE IF t3.ok
             THEN CallOut(t3.c,
                      [Save(f, c) EXCEPT !.pc = "init", !.id_token = t2.token],
                      Rule("expression"))
             ELSE var_decl_end(t2.c, t2.token, <<>>)
    ELSE IF Raised(r)
    THEN RaiseOut(Saved(f),
             << <<"Expected expression after '=' in declaration">> >> \o r.exc)
    ELSE var_decl_end(c, f.id_token, r.val)

\* assignment ::= IDENTIFIER '=' expression ';'
assignment(f, c, r) ==
    IF f.pc = "start"
    THEN LET t1 == consume_token_or_fail(c, "IDENTIFIER", None,
                       "Expected variable name in assignment")
             t2 == consume_token_or_fail(t1.c, "ASSIGN", "=",
                       "Expected '=' in assignment")
         IN  IF ~t1.ok THEN RaiseOut(c, t1.exc)
             ELSE IF ~t2.ok THEN RaiseOut(t1.c, t2.exc)
             ELSE CallOut(t2.c,
                      [Save(f, c) EXCEPT !.pc = "value", !.id_token = t1.token],
                      Rule("expression"))
    ELSE IF Raised(r)
    THEN RaiseOut(Saved(f), << <<"Expected expression in assignment">> >> \o r.exc)
    ELSE LET t == consume_token_or_fail(c, "SEMICOLON", ";",
                                        "Expected ';' after assignment")
         IN  IF ~t.ok
             THEN RaiseOut(c, t.exc)
             ELSE ReturnDict(t.c, [type |-> "assignment",
                                   name |-> f.id_token.value, value |-> r.val])

\* faulty variant of if_stmt_node: no 'else-body' field without an else
if_stmt_node_else_omitted(condition_result, if_body_result, else_body_result) ==
    IF else_body_result = <<>>
    THEN [type |-> "if_stmt", cond |-> condition_result]
            @@ ("if-body" :> if_body_result)
    ELSE [type |-> "if_stmt", cond |-> condition_result]
            @@ ("if-body" :> if_body_result) @@ ("else-body" :> else_body_result)

if_stmt_node(condition_result, if_body_result, else_body_result) ==
    [type |-> "if_stmt", cond |-> condition_result]
    @@ ("if-body" :> if_body_result) @@ ("else-body" :> else_body_result)

\* if_stmt ::= 'if' '(' expression ')' statement ('else' statement)?
if_stmt(f, c, r) ==
    IF f.pc = "start"
    THEN LET t1 == consume_token_or_fail(c, "IF", "if", None)
             t2 == consume_token_or_fail(t1.c, "LPAREN", "(",
                                         "Expected '(' after 'if'")
         IN  IF ~t1.ok THEN RaiseOut(c, t1.exc)
             ELSE IF ~t2.ok THEN RaiseOut(t1.c, t2.exc)
             ELSE CallOut(t2.c, [Save(f, c) EXCEPT !.pc = "cond"],
                          Rule("expression"))
    ELSE IF f.pc = "cond"
    THEN IF Raised(r)
         THEN RaiseOut(Saved(f),
                  << <<"Expected condition in 'if' statement">> >> \o r.exc)
         ELSE LET t == consume_token_or_fail(c, "RPAREN", ")",
                                             "Expected ')' after condition")
              IN  IF ~t.ok
                  THEN RaiseOut(c, t.exc)
                  ELSE CallOut(t.c,
                           [f EXCEPT !.pc = "if_body",
                                     !.condition_result = r.val],
                           Rule("statement"))
    ELSE IF f.pc = "if_body"
    THEN IF Raised(r)
         THEN RaiseOut(Saved(f), << <<"Expected statement after 'if'">> >> \o r.exc)
         ELSE LET t == consume_token(c, "ELSE", "else")
              IN  IF t.ok
                  THEN CallOut(t.c,
                           [f EXCEPT !.pc = "else_body",
                                     !.if_body_result = r.val],
                           Rule("statement"))
                  ELSE ReturnDict(c, if_stmt_node(f.condition_result, r.val, <<>>))
    ELSE IF Raised(r)
    THEN RaiseOut(Saved(f), << <<"Expected statement after 'else'">> >> \o r.exc)
    ELSE ReturnDict(c, if_stmt_node(f.condition_result, f.if_body_result, r.val))

\* while_loop ::= 'while' '(' expression ')' statement
while_loop(f, c, r) ==
    IF f.pc = "start"
    THEN LET t1 == consume_token_or_fail(c, "WHILE", "while", None)
             t2 == consume_token_or_fail(t1.c, "LPAREN", "(",
                                         "Expected '(' after 'while'")
         IN  IF ~t1.ok THEN RaiseOut(c, t1.exc)
             ELSE IF ~t2.ok THEN RaiseOut(t1.c, t2.exc)
             ELSE CallOut(t2.c, [Save(f, c) EXCEPT !.pc = "cond"],
                          Rule("expression"))
    ELSE IF f.pc = "cond"
    THEN IF Raised(r)
         THEN RaiseOut(Saved(f),
                  << <<"Expected condition in 'while' loop">> >> \o r.exc)
         ELSE LET t == consume_token_or_fail(c, "RPAREN", ")",
                                             "Expected ')' after condition")
              IN  IF ~t.ok
                  THEN RaiseOut(c, t.exc)
                  ELSE CallOut(t.c,
                           [f EXCEPT !.pc = "body", !.condition_result = r.val],
                           Rule("statement"))
    ELSE IF Raised(r)
    THEN RaiseOut(Saved(f), << <<"Expected loop body">> >> \o r.exc)
    ELSE ReturnDict(c, [type |-> "while_loop", cond |-> f.condition_result,
                        body |-> r.val])

\* print_stmt ::= 'print' expression ';'
print_stmt(f, c, r) ==
    IF f.pc = "start"
    THEN LET t1 == consume_token_or_fail(c, "PRINT", "print", None)
         IN  IF ~t1.ok THEN RaiseOut(c, t1.exc)
             ELSE CallOut(t1.c, [Save(f, c) EXCEPT !.pc = "expr"],
                          Rule("expression"))
    ELSE IF Raised(r)
    THEN RaiseOut(Saved(f), << <<"Expected expression after 'print'">> >> \o r.exc)
    ELSE LET t == consume_token_or_fail(c, "SEMICOLON", ";",
                                        "Expected ';' after print")
         IN  IF ~t.ok
             THEN RaiseOut(c, t.exc)
             ELSE ReturnDict(t.c, [type |-> "print_stmt", expression |-> r.val])

(***************************************************************************)
(* LHS symbols: the expression chain                                       *)
(***************************************************************************)
\* expression ::= logical_or
expression(f, c, r) ==
    IF f.pc = "start"
    THEN CallOut(c, [f EXCEPT !.pc = "or"], Rule("logical_or"))
    ELSE IF Raised(r)
    THEN RaiseOut(c, << <<"Failed to parse expression">> >> \o r.exc)
    ELSE ReturnDict(c, r.val)

\* faulty variant of binary_expr: the operands change sides
binary_expr_swapped(op, left, right) ==
    [type |-> "binary_expr", op |-> op, left |-> right, right |-> left]

binary_expr(op, left, right) ==
    [type |-> "binary_expr", op |-> op, left |-> left, right |-> right]

\* the if/elif chain of consume_token calls at the head of an operator loop:
\* the index of the first operator of ops that the current token matches, or 0
FirstOp(c, ops) ==
    LET hit == {k \in 1..Len(ops) : consume_token(c, ops[k].type, ops[k].value).ok}
    IN  IF hit = {} THEN 0 ELSE CHOOSE k \in hit : \A j \in hit : k <= j

\* the operator loop shared by logical_or .. multiplicative: with `left` in
\* hand, consume an operator and call the operand rule, or return left
OperatorLoop(f, c, left, ops, operand) ==
    LET k == FirstOp(c, ops)
    IN  IF k = 0
        THEN ReturnDict(c, left)
        ELSE CallOut(consume_token(c, ops[k].type, ops[k].value).c,
                     [f EXCEPT !.pc = "right", !.left = left,
                               !.op = ops[k].value],
                     operand)

\* one level  rule ::= operand (op operand)*
BinaryLevel(f, c, r, ops, operand, before_msg, after_msg) ==
    IF f.pc = "start"
    THEN CallOut(c, [Save(f, c) EXCEPT !.pc = "left"], operand)
    ELSE IF f.pc = "left"
    THEN IF Raised(r)
         THEN RaiseOut(Saved(f), <<before_msg>> \o r.exc)
         ELSE OperatorLoop(f, c, r.val, ops, operand)
    ELSE IF Raised(r)
    THEN RaiseOut(Saved(f), <<after_msg>> \o r.exc)
    ELSE OperatorLoop(f, c, binary_expr(f.op, f.left, r.val), ops, operand)

\* f"Expected expression after '{op}'"
AfterOp(op) == <<"Expected expression after '", op, "'">>

\* logical_or ::= logical_and ('||' logical_and)*
logical_or(f, c, r) ==
    BinaryLevel(f, c, r, <<Token("OR", "||")>>, Rule("logical_and"),
                <<"Expected expression before '||'">>,
                <<"Expected expression after '||'">>)

\* logical_and ::= equality ('&&' equality)*
logical_and(f, c, r) ==
    BinaryLevel(f, c, r, <<Token("AND", "&&")>>, Rule("equality"),
                <<"Expected expression before '&&'">>,
                <<"Expected expression after '&&'">>)

\* equality ::= relational (('==' | '!=') relational)*
equality(f, c, r) ==
    BinaryLevel(f, c, r, <<Token("EQ", "=="), Token("NEQ", "!=")>>,
                Rule("relational"),
                <<"Expected expression before '==' or '!='">>, AfterOp(f.op))

\* relational ::= additive (('<' | '>' | '<=' | '>=') additive)*
relational(f, c, r) ==
    BinaryLevel(f, c, r,
                <<Token("LT", "<"), Token("GT", ">"),
                  Token("LTE", "<="), Token("GTE", ">=")>>,
                Rule("additive"),
                <<"Expected expression before '<', '>', '<=', or '>='">>,
                AfterOp(f.op))

\* faulty variant of additive: its operands are primaries, not products
additive_over_primary(f, c, r) ==
    BinaryLevel(f, c, r, <<Token("PLUS", "+"), Token("MINUS", "-")>>,
                Rule("primary"),
                <<"Expected expression before '<', '>', '<=', or '>='">>,
                AfterOp(f.op))

\* additive ::= multiplicative (('+' | '-') multiplicative)*
additive(f, c, r) ==
    BinaryLevel(f, c, r, <<Token("PLUS", "+"), Token("MINUS", "-")>>,
                Rule("multiplicative"),
                <<"Expected expression before '<', '>', '<=', or '>='">>,
                AfterOp(f.op))

\* multiplicative ::= primary (('*' | '/') primary)*
multiplicative(f, c, r) ==
    BinaryLevel(f, c, r, <<Token("MUL", "*"), Token("DIV", "/")>>,
                Rule("primary"),
                <<"Expected expression before '*' or '/'">>, AfterOp(f.op))

\* faulty variant of primary: the operand of a sign is a whole product
primary_unary_over_product(f, c, r) ==
    IF f.pc = "start"
    THEN LET num == consume_token(c, "NUMBER", None)
             ident == consume_token(c, "IDENTIFIER", None)
             lparen == consume_token(c, "LPAREN", "(")
             plus == consume_token(c, "PLUS", "+")
             minus == consume_token(c, "MINUS", "-")
             op_token == IF plus.ok THEN plus ELSE minus
         IN  IF num.ok
             THEN ReturnDict(num.c, [type |-> "number",
                                     value |-> Float(num.token.value)])
             ELSE IF ident.ok
             THEN ReturnDict(ident.c, [type |-> "identifier",
                                       name |-> ident.token.value])
             ELSE IF lparen.ok
             THEN CallOut(lparen.c, [Save(f, c) EXCEPT !.pc = "paren"],
                          Rule("expression"))
             ELSE IF op_token.ok
             THEN CallOut(op_token.c,
                      [Save(f, c) EXCEPT !.pc = "unary",
                                         !.op = op_token.token.value],
                      Rule("multiplicative"))
             ELSE RaiseOut(c, << <<"Expected primary expression">> >>)
    ELSE IF f.pc = "paren"
    THEN IF Raised(r)
         THEN RaiseOut(Saved(f), << <<"Expected expression after '('">> >> \o r.exc)
         ELSE LET t == consume_token_or_fail(c, "RPAREN", ")",
                                             "Expected ')' after expression")
              IN  IF ~t.ok
                  THEN RaiseOut(c, t.exc)
                  ELSE ReturnDict(t.c, r.val)
    ELSE IF Raised(r)
    THEN RaiseOut(Saved(f), <<AfterOp(f.op)>> \o r.exc)
    ELSE ReturnDict(c, [type |-> "unary_expr", op |-> f.op, argument |-> r.val])

\* faulty variant of primary: a parenthesized expression gets a node of its own
primary_paren_wrapped(f, c, r) ==
    IF f.pc = "start"
    THEN LET num == consume_token(c, "NUMBER", None)
             ident == consume_token(c, "IDENTIFIER", None)
             lparen == consume_token(c, "LPAREN", "(")
             plus == consume_token(c, "PLUS", "+")
             minus == consume_token(c, "MINUS", "-")
             op_token == IF plus.ok THEN plus ELSE minus
         IN  IF num.ok
             THEN ReturnDict(num.c, [type |-> "number",
                                     value |-> Float(num.token.value)])
             ELSE IF ident.ok
             THEN ReturnDict(ident.c, [type |-> "identifier",
                                       name |-> ident.token.value])
             ELSE IF lparen.ok
             THEN CallOut(lparen.c, [Save(f, c) EXCEPT !.pc = "paren"],
                          Rule("expression"))
             ELSE IF op_token.ok
             THEN CallOut(op_token.c,
                      [Save(f, c) EXCEPT !.pc = "unary",
                                         !.op = op_token.token.value],
                      Rule("primary"))
             ELSE RaiseOut(c, << <<"Expected primary expression">> >>)
    ELSE IF f.pc = "paren"
    THEN IF Raised(r)
         THEN RaiseOut(Saved(f), << <<"Expected expression after '('">> >> \o r.exc)
         ELSE LET t == consume_token_or_fail(c, "RPAREN", ")",
                                             "Expected ')' after expression")
              IN  IF ~t.ok
                  THEN RaiseOut(c, t.exc)
                  ELSE ReturnDict(t.c, [type |-> "paren_expr", expression |-> r.val])
    ELSE IF Raised(r)
    THEN RaiseOut(Saved(f), <<AfterOp(f.op)>> \o r.exc)
    ELSE ReturnDict(c, [type |-> "unary_expr", op |-> f.op, argument |-> r.val])

\* faulty variant of primary: the sign is looked at but not consumed
primary_sign_not_consumed(f, c, r) ==
    IF f.pc = "start"
    THEN LET num == consume_token(c, "NUMBER", None)
             ident == consume_token(c, "IDENTIFIER", None)
             lparen == consume_token(c, "LPAREN", "(")
             plus == consume_token(c, "PLUS", "+")
             minus == consume_token(c, "MINUS", "-")
             op_token == IF plus.ok THEN plus ELSE minus
         IN  IF num.ok
             THEN ReturnDict(num.c, [type |-> "number",
                                     value |-> Float(num.token.value)])
             ELSE IF ident.ok
             THEN ReturnDict(ident.c, [type |-> "identifier",
                                       name |-> ident.token.value])
             ELSE IF lparen.ok
             THEN CallOut(lparen.c, [Save(f, c) EXCEPT !.pc = "paren"],
                          Rule("expression"))
             ELSE IF op_token.ok
             THEN CallOut(c,
                      [Save(f, c) EXCEPT !.pc = "unary",
                                         !.op = op_token.token.value],
                      Rule("primary"))
             ELSE RaiseOut(c, << <<"Expected primary expression">> >>)
    ELSE IF f.pc = "paren"
    THEN IF Raised(r)
         THEN RaiseOut(Saved(f), << <<"Expected expression after '('">> >> \o r.exc)
         ELSE LET t == consume_token_or_fail(c, "RPAREN", ")",
                                             "Expected ')' after expression")
              IN  IF ~t.ok
                  THEN RaiseOut(c, t.exc)
                  ELSE ReturnDict(t.c, r.val)
    ELSE IF Raised(r)
    THEN RaiseOut(Saved(f), <<AfterOp(f.op)>> \o r.exc)
    ELSE ReturnDict(c, [type |-> "unary_expr", op |-> f.op, argument |-> r.val])

\* primary ::= NUMBER | IDENTIFIER | '(' expression ')' | ('+' | '-') primary
primary(f, c, r) ==
    IF f.pc = "start"
    THEN LET num == consume_token(c, "NUMBER", None)
             ident == consume_token(c, "IDENTIFIER", None)
             lparen == consume_token(c, "LPAREN", "(")
             plus == consume_token(c, "PLUS", "+")
             minus == consume_token(c, "MINUS", "-")
             op_token == IF plus.ok THEN plus ELSE minus
         IN  IF num.ok
             THEN ReturnDict(num.c, [type |-> "number",
                                     value |-> Float(num.token.value)])
             ELSE IF ident.ok
             THEN ReturnDict(ident.c, [type |-> "identifier",
                                       name |-> ident.token.value])
             ELSE IF lparen.ok
             THEN CallOut(lparen.c, [Save(f, c) EXCEPT !.pc = "paren"],
                          Rule("expression"))
             ELSE IF op_token.ok
             THEN CallOut(op_token.c,
                      [Save(f, c) EXCEPT !.pc = "unary",
                                         !.op = op_token.token.value],
                      Rule("primary"))
             ELSE RaiseOut(c, << <<"Expected primary expression">> >>)
    ELSE IF f.pc = "paren"
    THEN IF Raised(r)
         THEN RaiseOut(Saved(f), << <<"Expected expression after '('">> >> \o r.exc)
         ELSE LET t == consume_token_or_fail(c, "RPAREN", ")",
                                             "Expected ')' after expression")
              IN  IF ~t.ok
                  THEN RaiseOut(c, t.exc)
                  ELSE ReturnDict(t.c, r.val)
    ELSE IF Raised(r)
    THEN RaiseOut(Saved(f), <<AfterOp(f.op)>> \o r.exc)
    ELSE ReturnDict(c, [type |-> "unary_expr", op |-> f.op, argument |-> r.val])

(***************************************************************************)
(* Inputs.  A caller hands the constructor a token list and calls one      *)
(* method.  The token lists are the programs below (the statements of the  *)
(* tests and of the example driver, each list ended by EOF) with up to     *)
(* MaxDrop of their tokens left out, which gives the truncated and the     *)
(* malformed lists; `given` remembers the program the list was made from.  *)
(***************************************************************************)
MaxDrop == 1

Chunk(kind, toks) == [kind |-> kind, toks |-> toks]

StmtVarDecl == Chunk("var_decl", <<T_VAR, Id("x"), T_SEMI>>)
StmtVarInit == Chunk("var_decl", <<T_VAR, Id("x"), T_ASSIGN, Num("5"), T_SEMI>>)
StmtAssign == Chunk("assignment",
                <<Id("x"), T_ASSIGN, Id("x"), T_PLUS, Num("1"), T_SEMI>>)
StmtPrint == Chunk("print_stmt", <<T_PRINT, Id("x"), T_SEMI>>)
StmtPrintSum == Chunk("print_stmt", <<T_PRINT, Id("x"), T_PLUS, Num("1"), T_SEMI>>)
StmtIf == Chunk("if_stmt",
            <<T_IF, T_LPAREN, Id("x"), T_RPAREN, T_PRINT, Id("x"), T_SEMI>>)
StmtIfElse == Chunk("if_stmt",
                <<T_IF, T_LPAREN, Id("x"), T_GT, Num("0"), T_RPAREN,
                  T_PRINT, Id("x"), T_SEMI,
                  T_ELSE, T_PRINT, Num("0"), T_SEMI>>)
StmtWhile == Chunk("while_loop",
               <<T_WHILE, T_LPAREN, Id("x"), T_LT, Num("10"), T_RPAREN,
                 T_LBRACE, T_PRINT, Id("x"), T_SEMI, T_RBRACE>>)
StmtBlock == Chunk("block", <<T_LBRACE, T_VAR, Id("x"), T_SEMI, T_RBRACE>>)

StatementSeeds ==
    { <<>>, <<StmtVarDecl>>, <<StmtVarInit>>, <<StmtAssign>>, <<StmtPrint>>, <<StmtIf>>,
      <<StmtIfElse>>, <<StmtWhile>>, <<StmtBlock>>,
      <<StmtVarDecl, StmtPrint>>, <<StmtVarDecl, StmtVarInit>>,
      <<StmtPrint, StmtVarInit, StmtAssign>>, <<StmtPrintSum>> }

Expr(toks) == Chunk("expression", toks)

ExpressionSeeds ==
    { <<Expr(<<Id("a"), T_MINUS, Id("b"), T_MINUS, Id("c")>>)>>,
      <<Expr(<<T_MINUS, T_MINUS, Num("5")>>)>>,
      <<Expr(<<T_MINUS, Id("a"), T_MUL, Id("b")>>)>>,
      <<Expr(<<Id("a"), T_PLUS, Id("b"), T_MUL, Id("c")>>)>>,
      <<Expr(<<T_LPAREN, Id("a"), T_PLUS, Id("b"), T_RPAREN, T_MUL, Id("c")>>)>>,
      <<Expr(<<T_MINUS, Id("a"), T_PLUS, Id("b")>>)>>,
      <<Expr(<<T_PLUS, T_MINUS, T_LPAREN, Id("a"), T_RPAREN>>)>>,
      <<Expr(<<Id("a"), T_MINUS, Id("b"), T_PLUS, Id("c"), T_MINUS, Id("d")>>)>> }

\* the binary operators, and an expression with two of them
BinaryOps ==
    {T_OR, T_AND, T_EQ, T_NEQ, T_LT, T_GT, T_LTE, T_GTE, T_PLUS, T_MINUS,
     T_MUL, T_DIV}

Triple(op1, op2) == <<Id("a"), op1, Id("b"), op2, Id("c")>>

TripleSeeds == { <<Expr(Triple(op1, op2))>> : op1 \in BinaryOps, op2 \in BinaryOps }

RECURSIVE Flatten(_)
Flatten(seed) ==
    IF seed = <<>> THEN <<>> ELSE Head(seed).toks \o Flatten(Tail(seed))

\* the token list of a program: its statements, then end-of-stream
Program(seed) == Flatten(seed) \o <<EOF>>

DropAt(s, i) == SubSeq(s, 1, i - 1) \o SubSeq(s, i + 1, Len(s))

RECURSIVE Drops(_, _)
Drops(s, n) ==
    IF n = 0
    THEN {s}
    ELSE {s} \cup UNION {Drops(DropAt(s, i), n - 1) : i \in 1..Len(s)}

StatementRules ==
    {"program", "statement", "block", "var_decl", "assignment", "if_stmt",
     "while_loop", "print_stmt"}

ExpressionRules ==
    {"expression", "logical_or", "logical_and", "equality", "relational",
     "additive", "multiplicative", "primary"}

Combinators ==
    {"parse_sequence", "parse_ordered_choice", "parse_zero_or_more",
     "parse_one_or_more", "parse_optional"}

\* the combinators called with symbols, as a grammar written with them would
CombinatorEntries ==
    { Sym("parse_sequence", <<>>),
      Sym("parse_sequence", <<Rule("var_decl"), Rule("print_stmt")>>),
      Sym("parse_sequence", <<Rule("print_stmt"), Rule("statement")>>),
      Sym("parse_ordered_choice", <<>>),
      Sym("parse_ordered_choice", <<Rule("print_stmt"), Rule("var_decl")>>),
      Sym("parse_ordered_choice", <<Rule("block"), Rule("statement")>>),
      Sym("parse_ordered_choice", StatementChoice),
      Sym("parse_ordered_choice",
          [i \in 1..Len(StatementChoice) |->
              StatementChoice[Len(StatementChoice) + 1 - i]]),
      Sym("parse_ordered_choice",
          [i \in 1..Len(StatementChoice) |->
              StatementChoice[((i + 2) % Len(StatementChoice)) + 1]]),
      Sym("parse_zero_or_more", <<Rule("statement")>>),
      Sym("parse_zero_or_more", <<Rule("var_decl")>>),
      Sym("parse_zero_or_more",
          <<Sym("parse_optional", <<Rule("var_decl")>>)>>),
      Sym("parse_one_or_more", <<Rule("var_decl")>>),
      Sym("parse_one_or_more",
          <<Sym("parse_optional", <<Rule("print_stmt")>>)>>),
      Sym("parse_one_or_more",
          <<Sym("parse_ordered_choice",
                <<Rule("var_decl"), Rule("print_stmt")>>)>>),
      Sym("parse_optional", <<Rule("var_decl")>>),
      Sym("parse_optional", <<Rule("statement")>>) }

\* the cursor primitives called as a rule body calls them
CursorEntries ==
    { Sym("consume_token", <<"VAR", None>>),
      Sym("consume_token", <<"VAR", "var">>),
      Sym("consume_token", <<"IDENTIFIER", None>>),
      Sym("consume_token", <<"IDENTIFIER", "x">>),
      Sym("consume_token", <<"IDENTIFIER", "y">>),
      Sym("consume_token", <<"PRINT", "var">>),
      Sym("consume_token", <<"EOF", None>>),
      Sym("consume_token_or_fail", <<"VAR", None, None>>),
      Sym("consume_token_or_fail", <<"IDENTIFIER", None, "Expected identifier">>),
      Sym("consume_token_or_fail", <<"IDENTIFIER", "y", None>>),
      Sym("consume_token_or_fail",
          <<"SEMICOLON", ";", "Expected ';' after declaration">>),
      Sym("consume_token_or_fail", <<"EOF", None, None>>) }

Calls ==
    (({Rule(fn) : fn \in StatementRules} \cup CombinatorEntries)
        \X StatementSeeds)
    \cup ({Rule(fn) : fn \in ExpressionRules} \X ExpressionSeeds)
    \cup ({Rule("expression")} \X TripleSeeds)

CursorCalls == CursorEntries \X StatementSeeds

\* __init__, then the call of the entry method
Init ==
    \E call \in Calls \cup CursorCalls :
        \E toks \in Drops(Program(call[2]), MaxDrop) :
            /\ tokens = toks
            /\ pos = 0
            /\ current_token = IF toks # <<>> THEN toks[1] ELSE EOF
            /\ stack = <<Enter(call[1],
                               [pos |-> 0,
                                cur |-> IF toks # <<>> THEN toks[1] ELSE EOF])>>
            /\ ret = NoRet
            /\ entry = call[1]
            /\ given = call[2]
            /\ steps = 0

(***************************************************************************)
(* Actions: the method on top of the call stack runs up to its next call,  *)
(* return or raise                                                         *)
(***************************************************************************)
Running(fn) == stack # <<>> /\ Top.fn = fn

ParseSequence == Running("parse_sequence") /\ Apply(parse_sequence(Top, Cursor, ret))
ParseOrderedChoice ==
    Running("parse_ordered_choice") /\ Apply(parse_ordered_choice(Top, Cursor, ret))
ParseZeroOrMore ==
    Running("parse_zero_or_more") /\ Apply(parse_zero_or_more(Top, Cursor, ret))
ParseOneOrMore ==
    Running("parse_one_or_more") /\ Apply(parse_one_or_more(Top, Cursor, ret))
ParseOptional == Running("parse_optional") /\ Apply(parse_optional(Top, Cursor, ret))
ConsumeToken ==
    Running("consume_token") /\ Apply(consume_token_call(Top, Cursor, ret))
ConsumeTokenOrFail ==
    Running("consume_token_or_fail")
        /\ Apply(consume_token_or_fail_call(Top, Cursor, ret))
ProgramStep == Running("program") /\ Apply(program(Top, Cursor, ret))
StatementStep == Running("statement") /\ Apply(statement(Top, Cursor, ret))
BlockStep == Running("block") /\ Apply(block(Top, Cursor, ret))
VarDeclStep == Running("var_decl") /\ Apply(var_decl(Top, Cursor, ret))
AssignmentStep == Running("assignment") /\ Apply(assignment(Top, Cursor, ret))
IfStmtStep == Running("if_stmt") /\ Apply(if_stmt(Top, Cursor, ret))
WhileLoopStep == Running("while_loop") /\ Apply(while_loop(Top, Cursor, ret))
PrintStmtStep == Running("print_stmt") /\ Apply(print_stmt(Top, Cursor, ret))
ExpressionStep == Running("expression") /\ Apply(expression(Top, Cursor, ret))
LogicalOrStep == Running("logical_or") /\ Apply(logical_or(Top, Cursor, ret))
LogicalAndStep == Running("logical_and") /\ Apply(logical_and(Top, Cursor, ret))
EqualityStep == Running("equality") /\ Apply(equality(Top, Cursor, ret))
RelationalStep == Running("relational") /\ Apply(relational(Top, Cursor, ret))
AdditiveStep == Running("additive") /\ Apply(additive(Top, Cursor, ret))
MultiplicativeStep ==
    Running("multiplicative") /\ Apply(multiplicative(Top, Cursor, ret))
PrimaryStep == Running("primary") /\ Apply(primary(Top, Cursor, ret))

Next ==
    \/ ParseSequence
    \/ ParseOrderedChoice
    \/ ParseZeroOrMore
    \/ ParseOneOrMore
    \/ ParseOptional
    \/ ConsumeToken
    \/ ConsumeTokenOrFail
    \/ ProgramStep
    \/ StatementStep
    \/ BlockStep
    \/ VarDeclStep
    \/ AssignmentStep
    \/ IfStmtStep
    \/ WhileLoopStep
    \/ PrintStmtStep
    \/ ExpressionStep
    \/ LogicalOrStep
    \/ LogicalAndStep
    \/ EqualityStep
    \/ RelationalStep
    \/ AdditiveStep
    \/ MultiplicativeStep
    \/ PrimaryStep

Spec == Init /\ [][Next]_vars

\* the entry method has returned or raised: the caller has the outcome in ret
Done == stack = <<>>
Returned == Done /\ ret.kind = "value"
Failed == Done /\ ret.kind = "raise"

(***************************************************************************)
(* Properties                                                              *)
(***************************************************************************)
Last(s) == s[Len(s)]

\* the method whose outcome is in ret, and the calls it made
Finished(fn) == ret.kind # "none" /\ ret.by.fn = fn

\* a call that moved the cursor before it finished
Consumed(call) == call.to.pos > call.from.pos

\* C1: program() on one or more well-formed statements followed by
\* end-of-stream returns a 'program' node whose body has one node per
\* statement, in input order, and leaves the cursor on the end-of-stream token.
C1_ProgramBody ==
    (Done /\ entry.fn = "program" /\ given # <<>> /\ tokens = Program(given))
    => /\ ret.kind = "value"
       /\ ret.val.type = "program"
       /\ Len(ret.val.body) = Len(given)
       /\ \A k \in 1..Len(given) : ret.val.body[k].type = given[k].kind
       /\ pos = Len(tokens) - 1
       /\ current_token = EOF

C1_Witness ==
    /\ Done /\ entry.fn = "program"
    /\ Len(given) = 3 /\ tokens = Program(given)
    /\ ret.kind = "value"

\* C2: whenever program() returns a node the cursor stands on the
\* end-of-stream token (no partial AST is handed back).
C2_NoPartialAST ==
    (Done /\ entry.fn = "program" /\ ret.kind = "value")
    => current_token.type = "EOF"

\* C3: on a token list that is empty or holds only end-of-stream, program()
\* raises and the message of the failure the caller receives is
\* "Empty program".
C3_EmptyProgramMessage ==
    (Done /\ entry.fn = "program" /\ tokens \in {<<>>, <<EOF>>})
    => /\ ret.kind = "raise"
       /\ ret.exc[1] = <<"Empty program">>

\* C4: parse_ordered_choice with one or more symbols never raises; it tries
\* the symbols in listed order, returns the one-element list with the result
\* of the first that succeeds and calls none after it; if all fail it returns
\* the empty list with the cursor as at entry.
C4_OrderedChoice ==
    (Finished("parse_ordered_choice") /\ ret.by.args # <<>>)
    => LET f == ret.by
           h == f.trace
           n == Len(h)
       IN  /\ ret.kind = "value"
           /\ n \in 1..Len(f.args)
           /\ \A k \in 1..n : h[k].sym = f.args[k]
           /\ \A k \in 1..(n - 1) : h[k].kind = "raise"
           /\ IF h[n].kind = "value"
              THEN ret.val = <<h[n].val>>
              ELSE /\ n = Len(f.args)
                   /\ ret.val = <<>>
                   /\ Cursor = f.at

C4_Witness ==
    /\ Finished("parse_ordered_choice")
    /\ Len(ret.by.trace) = Len(ret.by.args)
    /\ \A k \in 1..Len(ret.by.trace) : ret.by.trace[k].kind = "raise"
    /\ \E k \in 1..Len(ret.by.trace) : Consumed(ret.by.trace[k])

\* C5: parse_sequence is all-or-nothing: it returns the results of all its
\* symbols in order, or, when a symbol raises, raises with the cursor as at
\* entry and calls no later symbol; with no symbols it raises without moving
\* the cursor.
C5_Sequence ==
    Finished("parse_sequence")
    => LET f == ret.by
           h == f.trace
           n == Len(h)
       IN  IF f.args = <<>>
           THEN ret.kind = "raise" /\ n = 0 /\ Cursor = f.at
           ELSE /\ n \in 1..Len(f.args)
                /\ \A k \in 1..n : h[k].sym = f.args[k]
                /\ \A k \in 1..(n - 1) : h[k].kind = "value"
                /\ IF h[n].kind = "value"
                   THEN /\ n = Len(f.args)
                        /\ ret.kind = "value"
                        /\ Len(ret.val) = n
                        /\ \A k \in 1..n : ret.val[k] = h[k].val
                   ELSE /\ ret.kind = "raise"
                        /\ Cursor = f.at

C5_Witness ==
    /\ Finished("parse_sequence")
    /\ ret.kind = "raise"
    /\ Len(ret.by.trace) = 2
    /\ Consumed(ret.by.trace[1])

\* C6: parse_zero_or_more never raises; when the symbol fails on the i-th
\* iteration it returns the results of the i-1 earlier iterations in order,
\* with the cursor as it was right after the last successful iteration.
C6_ZeroOrMore ==
    Finished("parse_zero_or_more")
    => LET f == ret.by
           h == f.trace
           n == Len(h)
       IN  /\ ret.kind = "value"
           /\ n >= 1
           /\ \A k \in 1..n : h[k].sym = f.args[1]
           /\ \A k \in 1..(n - 1) : h[k].kind = "value"
           /\ h[n].kind = "raise"
              => /\ Len(ret.val) = n - 1
                 /\ \A k \in 1..(n - 1) : ret.val[k] = h[k].val
                 /\ Cursor = IF n = 1 THEN f.at ELSE h[n - 1].to

C6_Witness ==
    /\ Finished("parse_zero_or_more")
    /\ Len(ret.by.trace) >= 2
    /\ Last(ret.by.trace).kind = "raise"
    /\ Consumed(Last(ret.by.trace))

\* C7: parse_one_or_more raises exactly when the first call of the symbol
\* fails, and then the cursor is as at entry; when the first call returns a
\* node, it returns that node followed by the results of the zero-or-more
\* repetitions of the symbol.
C7_OneOrMore ==
    Finished("parse_one_or_more")
    => LET f == ret.by
           h == f.trace
       IN  /\ Len(h) >= 1
           /\ h[1].sym = f.args[1]
           /\ (ret.kind = "raise") <=> (h[1].kind = "raise")
           /\ ret.kind = "raise" => (Len(h) = 1 /\ Cursor = f.at)
           /\ (h[1].kind = "value" /\ h[1].isdict /\ h[1].val # <<>>)
              => /\ Len(h) = 2
                 /\ h[2].sym = Sym("parse_zero_or_more", <<f.args[1]>>)
                 /\ h[2].kind = "value"
                 /\ ret.val = <<h[1].val>> \o h[2].val

C7_Witness ==
    /\ Finished("parse_one_or_more")
    /\ ret.kind = "raise"
    /\ Consumed(ret.by.trace[1])

GrammarRules ==
    {"block", "var_decl", "assignment", "if_stmt", "while_loop", "print_stmt",
     "expression", "logical_or", "logical_and", "equality", "relational",
     "additive", "multiplicative", "primary"}

\* C8: a grammar rule that raises leaves the cursor as it was at the rule's
\* entry, whether it was called directly or through a combinator.
C8_RuleRestoresOnRaise ==
    (ret.kind = "raise" /\ ret.by.fn \in GrammarRules) => Cursor = ret.by.at

Absorbing == {"parse_ordered_choice", "parse_zero_or_more", "parse_optional"}

\* C9: when a symbol called by parse_ordered_choice, parse_zero_or_more or
\* parse_optional fails, then right after the combinator has handled the
\* failure (it has called its next symbol, or it has returned) the cursor is
\* as it was immediately before that call, and the combinator has not raised.
C9_IdempotentRollback ==
    /\ (/\ ret.kind # "none"
        /\ ret.by.fn \in Absorbing
        /\ ret.by.trace # <<>>
        /\ Last(ret.by.trace).kind = "raise")
       => /\ ret.kind = "value"
          /\ Cursor = Last(ret.by.trace).from
    /\ (/\ Len(stack) >= 2
        /\ ret.kind = "none"
        /\ stack[Len(stack) - 1].fn \in Absorbing
        /\ stack[Len(stack) - 1].trace # <<>>
        /\ Last(stack[Len(stack) - 1].trace).kind = "raise")
       => Cursor = Last(stack[Len(stack) - 1].trace).from

C9_Witness ==
    /\ Finished("parse_optional")
    /\ ret.by.trace # <<>>
    /\ Last(ret.by.trace).kind = "raise"
    /\ Consumed(Last(ret.by.trace))

\* C10: in every state the current token is tokens[position] when the
\* position is inside the token list and an end-of-stream token when it is
\* not, also after every rollback.
C10_CursorConsistent ==
    current_token = IF pos < Len(tokens) THEN tokens[pos + 1] ELSE EOF

C10_Witness ==
    /\ ret.kind # "none"
    /\ ret.by.trace # <<>>
    /\ Last(ret.by.trace).kind = "raise"
    /\ pos < Last(ret.by.trace).to.pos

C12_Consume ==
    LET f == ret.by
        matches ==
            /\ f.at.cur.type = f.args[1]
            /\ f.args[2] = None \/ f.at.cur.value = f.args[2]
        consumed ==
            /\ ret.kind = "value"
            /\ ret.val = f.at.cur
            /\ pos = f.at.pos + 1
            /\ current_token = IF pos < Len(tokens) THEN tokens[pos + 1] ELSE EOF
    IN  /\ Finished("consume_token") =>
              IF matches
              THEN consumed
              ELSE ret.kind = "value" /\ ret.val = <<>> /\ Cursor = f.at
        /\ Finished("consume_token_or_fail") =>
              IF matches THEN consumed ELSE ret.kind = "raise" /\ Cursor = f.at

\* the kind matched and the given value decided: no match
C12_Witness ==
    /\ Finished("consume_token")
    /\ ret.by.at.cur.type = ret.by.args[1]
    /\ ret.by.args[2] # None
    /\ ret.by.at.cur.value # ret.by.args[2]
    /\ ret.val = <<>>

(***************************************************************************)
(* Expressions read off the token list: the binding level of an operator   *)
(* (1 loosest), the level a rule parses from, and the trees expected       *)
(***************************************************************************)
LevelOf(t) ==
    CASE t.type = "OR" -> 1
      [] t.type = "AND" -> 2
      [] t.type \in {"EQ", "NEQ"} -> 3
      [] t.type \in {"LT", "GT", "LTE", "GTE"} -> 4
      [] t.type \in {"PLUS", "MINUS"} -> 5
      [] t.type \in {"MUL", "DIV"} -> 6
      [] OTHER -> 0

RuleLevel(fn) ==
    CASE fn = "expression" -> 0
      [] fn = "logical_or" -> 1
      [] fn = "logical_and" -> 2
      [] fn = "equality" -> 3
      [] fn = "relational" -> 4
      [] fn = "additive" -> 5
      [] fn = "multiplicative" -> 6
      [] OTHER -> 7

Leaf(t) == [type |-> "identifier", name |-> t.value]

Node(op, left, right) ==
    [type |-> "binary_expr", op |-> op.value, left |-> left, right |-> right]

\* identifier, operator, identifier, ..., identifier, EOF
IsOperatorList(toks) ==
    /\ Len(toks) >= 4
    /\ Len(toks) % 2 = 0
    /\ toks[Len(toks)] = EOF
    /\ \A i \in 1..(Len(toks) - 1) :
          IF i % 2 = 1 THEN toks[i].type = "IDENTIFIER" ELSE LevelOf(toks[i]) > 0

\* an operator list whose operators are all of one level
IsChain(toks) ==
    /\ IsOperatorList(toks)
    /\ \A i \in 1..(Len(toks) - 1) : i % 2 = 0 => LevelOf(toks[i]) = LevelOf(toks[2])

\* the left-nested tree of the first k operators of a chain
RECURSIVE LeftNested(_, _)
LeftNested(toks, k) ==
    IF k = 0
    THEN Leaf(toks[1])
    ELSE Node(toks[2 * k], LeftNested(toks, k - 1), Leaf(toks[2 * k + 1]))

\* C13: a chain x1 op1 x2 ... opk x(k+1) of operators of one level, parsed by
\* expression() or by a rule of that level or a looser one, gives the
\* left-nested tree: each operator's node has the tree of everything before it
\* as its left child and the single following operand as its right child.
C13_LeftAssociative ==
    \A fn \in ExpressionRules :
        (/\ Finished(fn)
         /\ ret.by.at.pos = 0
         /\ IsChain(tokens)
         /\ RuleLevel(fn) <= LevelOf(tokens[2]))
        => /\ ret.kind = "value"
           /\ ret.val = LeftNested(tokens, (Len(tokens) - 2) \div 2)
           /\ pos = Len(tokens) - 1

\* expression() has returned the tree of a chain of three operators
C13_Witness ==
    /\ Returned
    /\ entry.fn = "expression"
    /\ IsChain(tokens)
    /\ Len(tokens) = 8
    /\ ret.val.left.left.type = "binary_expr"

\* the token at 0-based position p of the token list (EOF past its end)
TokenAt(p) == IF p < Len(tokens) THEN tokens[p + 1] ELSE EOF

\* C14: a var_decl node always has the field 'init', which is the empty
\* object exactly when no '=' follows the declared name and the initializer's
\* node otherwise; an if_stmt node always has the field 'else-body', which is
\* the empty object exactly when no 'else' follows the if-body and the else
\* statement's node otherwise.
C14_AbsentOptional ==
    LET f == ret.by
        h == f.trace
    IN  /\ (Finished("var_decl") /\ ret.kind = "value") =>
              LET assigned == TokenAt(f.at.pos + 2).type = "ASSIGN"
              IN  /\ "init" \in DOMAIN ret.val
                  /\ ret.val.init = <<>> <=> ~assigned
                  /\ assigned => h # <<>> /\ ret.val.init = h[1].val
        /\ (Finished("if_stmt") /\ ret.kind = "value") =>
              LET else_follows == TokenAt(h[2].to.pos).type = "ELSE"
              IN  /\ "else-body" \in DOMAIN ret.val
                  /\ ret.val["else-body"] = <<>> <=> ~else_follows
                  /\ else_follows => Len(h) = 3 /\ ret.val["else-body"] = h[3].val

\* an if without else has returned its node with the empty object as
\* 'else-body'
C14_Witness ==
    /\ Finished("if_stmt")
    /\ ret.kind = "value"
    /\ TokenAt(ret.by.trace[2].to.pos).type # "ELSE"
    /\ ret.val["else-body"] = <<>>
    /\ ret.val["if-body"].type = "print_stmt"

StatementLeaders == {"VAR", "IDENTIFIER", "IF", "WHILE", "PRINT", "LBRACE"}

\* C15: statement() entered on an identifier that is not directly followed
\* by '=' (an expression statement such as `x ;` or `x + 1 ;`), or on a token
\* that starts none of the six statement forms, raises and leaves position
\* and current token as they were at its entry.
C15_NoExpressionStatement ==
    LET f == ret.by
    IN  (/\ Finished("statement")
         /\ \/ /\ f.at.cur.type = "IDENTIFIER"
               /\ TokenAt(f.at.pos + 1).type # "ASSIGN"
            \/ f.at.cur.type \notin StatementLeaders)
        => ret.kind = "raise" /\ Cursor = f.at

\* statement() has refused `x + 1 ;`
C15_Witness ==
    /\ Finished("statement")
    /\ ret.kind = "raise"
    /\ ret.by.at.cur.type = "IDENTIFIER"
    /\ TokenAt(ret.by.at.pos + 1).type = "PLUS"
    /\ TokenAt(ret.by.at.pos + 3).type = "SEMICOLON"

Signs == {"PLUS", "MINUS"}

OperandNode(t) ==
    IF t.type = "NUMBER"
    THEN [type |-> "number", value |-> Float(t.value)]
    ELSE Leaf(t)

\* the number of sign tokens in a row from position p on
RECURSIVE SignCount(_)
SignCount(p) == IF TokenAt(p).type \in Signs THEN 1 + SignCount(p + 1) ELSE 0

\* k signs from position p on, around the operand that follows them
RECURSIVE Signed(_, _)
Signed(p, k) ==
    IF k = 0
    THEN OperandNode(TokenAt(p))
    ELSE [type |-> "unary_expr", op |-> TokenAt(p).value,
          argument |-> Signed(p + 1, k - 1)]

\* C16: primary() entered on a sign returns a unary_expr node with that sign
\* whose argument is what primary() returned for the rest, so k signs before
\* a number or identifier give k nested unary_expr nodes, outermost first,
\* and nothing after that operand is consumed; in `-a * b` and `-a + b` the
\* unary node (argument a alone) is the left operand of the binary operator.
C16_UnarySign ==
    LET f == ret.by
        h == f.trace
        k == SignCount(f.at.pos)
    IN  /\ (Finished("primary") /\ ret.kind = "value" /\ f.at.cur.type \in Signs) =>
              /\ Len(h) = 1
              /\ h[1].sym = Rule("primary")
              /\ h[1].from.pos = f.at.pos + 1
              /\ ret.val = [type |-> "unary_expr", op |-> f.at.cur.value,
                            argument |-> h[1].val]
              /\ pos = h[1].to.pos
        /\ (/\ Finished("primary")
            /\ k > 0
            /\ TokenAt(f.at.pos + k).type \in {"NUMBER", "IDENTIFIER"}) =>
              /\ ret.kind = "value"
              /\ ret.val = Signed(f.at.pos, k)
              /\ pos = f.at.pos + k + 1
        /\ (/\ Finished("expression")
            /\ f.at.pos = 0
            /\ Len(tokens) = 5
            /\ tokens[1].type \in Signs
            /\ tokens[2].type = "IDENTIFIER"
            /\ LevelOf(tokens[3]) > 0
            /\ tokens[4].type = "IDENTIFIER"
            /\ tokens[5] = EOF) =>
              /\ ret.kind = "value"
              /\ ret.val = Node(tokens[3], Signed(0, 1), Leaf(tokens[4]))

\* expression() has returned the tree of `- a * b`
C16_Witness ==
    /\ Returned
    /\ entry.fn = "expression"
    /\ tokens = <<T_MINUS, Id("a"), T_MUL, Id("b"), EOF>>
    /\ ret.val.left.type = "unary_expr"

\* C17: in a op1 b op2 c with operators of different levels ('||' loosest,
\* then '&&', then '==' '!=', then '<' '>' '<=' '>=', then '+' '-', then
\* '*' '/' tightest) the tighter operator's node is a child of the looser
\* operator's node, whichever comes first: a + b * c is '+'(a, '*'(b, c)) and
\* a * b + c is '+'('*'(a, b), c).
C17_Precedence ==
    LET a == Leaf(tokens[1])
        b == Leaf(tokens[3])
        c == Leaf(tokens[5])
        op1 == tokens[2]
        op2 == tokens[4]
    IN  \A fn \in ExpressionRules :
            (/\ Finished(fn)
             /\ ret.by.at.pos = 0
             /\ IsOperatorList(tokens)
             /\ Len(tokens) = 6
             /\ LevelOf(op1) # LevelOf(op2)
             /\ RuleLevel(fn) <= LevelOf(op1)
             /\ RuleLevel(fn) <= LevelOf(op2))
            => /\ ret.kind = "value"
               /\ pos = 5
               /\ ret.val = IF LevelOf(op1) > LevelOf(op2)
                            THEN Node(op2, Node(op1, a, b), c)
                            ELSE Node(op1, a, Node(op2, b, c))

\* expression() has returned the tree of a * b + c
C17_Witness ==
    /\ Returned
    /\ entry.fn = "expression"
    /\ tokens = Triple(T_MUL, T_PLUS) \o <<EOF>>
    /\ ret.val.op = "+"
    /\ ret.val.left.op = "*"

\* how a failure message names a token: by its text or, without text, its kind
NameOf(t) == IF t.value \notin {None, ""} THEN t.value ELSE t.type

\* the rule of frame f has come to its terminating ';' at position p
AtSemicolon(f, p) ==
    LET h == f.trace
        first == f.at.cur.type
        second == TokenAt(f.at.pos + 1).type
        parsed == Len(h) = 1 /\ h[1].kind = "value" /\ p = h[1].to.pos
    IN  \/ /\ f.fn = "var_decl"
           /\ first = "VAR" /\ second = "IDENTIFIER"
           /\ IF TokenAt(f.at.pos + 2).type = "ASSIGN"
              THEN parsed
              ELSE p = f.at.pos + 2
        \/ /\ f.fn = "assignment"
           /\ first = "IDENTIFIER" /\ second = "ASSIGN"
           /\ parsed
        \/ /\ f.fn = "print_stmt"
           /\ first = "PRINT"
           /\ parsed

\* C18: var_decl, assignment and print_stmt raise when the token at the place
\* of their terminating ';' is not ';', and the failure is the one of
\* consume_token_or_fail: it names ';' as expected and the token found.
C18_MissingSemicolon ==
    \A p \in 0..Len(tokens) :
        (/\ ret.kind # "none"
         /\ AtSemicolon(ret.by, p)
         /\ TokenAt(p).type # "SEMICOLON")
        => /\ ret.kind = "raise"
           /\ Len(ret.exc) = 1
           /\ Len(ret.exc[1]) = 5
           /\ ret.exc[1][2] = ". Expected "
           /\ ret.exc[1][3] = ";"
           /\ ret.exc[1][4] = ", found "
           /\ ret.exc[1][5] = NameOf(TokenAt(p))

\* var_decl has failed on `var x = 5` followed by EOF
C18_Witness ==
    /\ Finished("var_decl")
    /\ ret.by.at.pos = 0
    /\ tokens = <<T_VAR, Id("x"), T_ASSIGN, Num("5"), EOF>>
    /\ ret.kind = "raise"
    /\ ret.exc[1][5] = "EOF"

\* C19: primary() entered on '(' returns exactly the node expression()
\* returned for what follows the '(', with no node of its own around it, and
\* has consumed the '(' and the ')' after the expression; (a + b) * c is the
\* '*' node whose left child is the '+' node.
C19_Parenthesized ==
    LET f == ret.by
        h == f.trace
    IN  /\ (/\ Finished("primary")
            /\ ret.kind = "value"
            /\ f.at.cur.type = "LPAREN") =>
              /\ Len(h) = 1
              /\ h[1].sym = Rule("expression")
              /\ h[1].kind = "value"
              /\ h[1].from.pos = f.at.pos + 1
              /\ TokenAt(h[1].to.pos).type = "RPAREN"
              /\ pos = h[1].to.pos + 1
              /\ ret.val = h[1].val
        /\ (/\ Finished("expression")
            /\ f.at.pos = 0
            /\ tokens = <<T_LPAREN, Id("a"), T_PLUS, Id("b"), T_RPAREN,
                           T_MUL, Id("c"), EOF>>) =>
              /\ ret.kind = "value"
              /\ ret.val = Node(T_MUL, Node(T_PLUS, Leaf(Id("a")), Leaf(Id("b"))),
                                Leaf(Id("c")))

\* expression() has returned the tree of ( a + b ) * c
C19_Witness ==
    /\ Returned
    /\ entry.fn = "expression"
    /\ Len(tokens) = 8
    /\ tokens[1] = T_LPAREN
    /\ tokens[5] = T_RPAREN
    /\ ret.val.op = "*"
    /\ ret.val.left.op = "+"

\* C20: every failure that leaves a grammar rule, program() and statement()
\* included, has a cause chain that ends in the expected-vs-found description
\* raised by consume_token_or_fail.
C20_FailureChain ==
    (ret.kind = "raise" /\ ret.by.fn \in GrammarRules \cup {"program", "statement"})
    => /\ Len(Last(ret.exc)) = 5
       /\ Last(ret.exc)[2] = ". Expected "
       /\ Last(ret.exc)[4] = ", found "

\* the iterations of a repetition, as its frame's record of finished calls:
\* every one but the last succeeded and moved the position forward
OnlyLastIterationStays(h) ==
    \A k \in 1..(Len(h) - 1) :
        h[k].kind = "value" /\ h[k].to.pos > h[k].from.pos

\* every repetition, still running or just finished, has only
\* forward-moving successes before its last iteration
ZeroWidthIsLast ==
    /\ \A k \in 1..Len(stack) :
          stack[k].fn = "parse_zero_or_more" => OnlyLastIterationStays(stack[k].trace)
    /\ Finished("parse_zero_or_more") =>
          /\ OnlyLastIterationStays(ret.by.trace)
          /\ ret.kind = "value"
          /\ Len(ret.val) <= Len(ret.by.trace)

\* C21: in parse_zero_or_more an iteration that succeeded without moving the
\* position is the last one: after every step each repetition, still running
\* or just finished, has only successes that strictly increased the position
\* before its last iteration, and a repetition that has seen a zero-width
\* success returns at its next step, with that result included and the
\* position unchanged.
C21_ZeroWidthGuard ==
    [][ /\ ZeroWidthIsLast'
        /\ (/\ stack # <<>>
            /\ Top.fn = "parse_zero_or_more"
            /\ Top.trace # <<>>
            /\ Last(Top.trace).kind = "value"
            /\ Last(Top.trace).to.pos = Last(Top.trace).from.pos)
           => /\ Len(stack') = Len(stack) - 1
              /\ ret'.kind = "value"
              /\ Len(ret'.val) = Len(Top.trace)
              /\ pos' = pos ]_vars

\* a repetition has ended on a zero-width success after an iteration that
\* consumed tokens
C21_Witness ==
    /\ Finished("parse_zero_or_more")
    /\ Len(ret.by.trace) >= 2
    /\ Last(ret.by.trace).kind = "value"
    /\ Last(ret.by.trace).to.pos = Last(ret.by.trace).from.pos
    /\ Len(ret.val) = Len(ret.by.trace)

\* the token kind each alternative of statement() starts with
Leader(fn) ==
    CASE fn = "var_decl" -> "VAR"
      [] fn = "assignment" -> "IDENTIFIER"
      [] fn = "if_stmt" -> "IF"
      [] fn = "while_loop" -> "WHILE"
      [] fn = "print_stmt" -> "PRINT"
      [] fn = "block" -> "LBRACE"
      [] OTHER -> ""

Alternatives == {StatementChoice[i].fn : i \in 1..Len(StatementChoice)}

\* args lists the six alternatives of statement() in some order
IsOrdering(args) ==
    /\ Len(args) = Len(StatementChoice)
    /\ {args[i] : i \in 1..Len(args)} = {Rule(fn) : fn \in Alternatives}

\* C22: an alternative of statement() succeeds only at a cursor whose current
\* token is of its own leading kind, so at most one of the six can succeed at
\* a cursor; an ordered choice over the six in any order returns the node of
\* the alternative that the current token leads, having seen every
\* alternative tried before it fail, and is empty only when all six failed.
C22_DisjointAlternatives ==
    LET f == ret.by
        h == f.trace
    IN  /\ \A fn \in Alternatives :
              (Finished(fn) /\ ret.kind = "value") => f.at.cur.type = Leader(fn)
        /\ (Finished("parse_ordered_choice") /\ IsOrdering(f.args)) =>
              /\ \A k \in 1..Len(h) :
                    /\ h[k].sym = f.args[k]
                    /\ h[k].from = f.at
                    /\ h[k].kind = "value" =>
                          k = Len(h) /\ Leader(h[k].sym.fn) = f.at.cur.type
              /\ IF ret.val = <<>>
                 THEN Len(h) = Len(f.args) /\ \A k \in 1..Len(h) : h[k].kind = "raise"
                 ELSE h # <<>> /\ Last(h).kind = "value" /\ ret.val = <<Last(h).val>>

\* the choice over the six alternatives in reverse order has returned the
\* node of the last of them it tried
C22_Witness ==
    /\ Finished("parse_ordered_choice")
    /\ IsOrdering(ret.by.args)
    /\ ret.by.args[1] = Rule("block")
    /\ ret.val # <<>>
    /\ Last(ret.by.trace).sym = Rule("var_decl")

\* a non-empty node with a 'type' tag
IsNode(val, isdict) == val # <<>> /\ isdict /\ "type" \in DOMAIN val

\* C23: every grammar rule that returns, returns a non-empty node carrying a
\* 'type' tag, so the first result parse_one_or_more gets from statement is
\* never empty and a successful parse_one_or_more(statement) is not empty.
C23_RulesReturnNodes ==
    /\ \A fn \in GrammarRules \cup {"program", "statement"} :
          (Finished(fn) /\ ret.kind = "value") => IsNode(ret.val, ret.isdict)
    /\ \A k \in 1..Len(stack) :
          (/\ stack[k].fn = "parse_one_or_more"
           /\ stack[k].args = <<Rule("statement")>>
           /\ stack[k].trace # <<>>
           /\ stack[k].trace[1].kind = "value")
          => IsNode(stack[k].trace[1].val, stack[k].trace[1].isdict)
    /\ (/\ Finished("parse_one_or_more")
        /\ ret.by.args = <<Rule("statement")>>
        /\ ret.kind = "value")
       => /\ ret.val # <<>>
          /\ IsNode(ret.by.trace[1].val, ret.by.trace[1].isdict)

\* parse_one_or_more has got an if_stmt node from statement as first result
C23_Witness ==
    /\ Finished("parse_one_or_more")
    /\ ret.by.args = <<Rule("statement")>>
    /\ ret.kind = "value"
    /\ ret.by.trace[1].val.type = "if_stmt"

\* every active invocation nested in an invocation of the same symbol began
\* after more tokens were consumed, and every iteration of a repetition began
\* after the one before it
CallsAdvance ==
    /\ \A i \in 1..Len(stack) : \A j \in (i + 1)..Len(stack) :
          (stack[i].fn = stack[j].fn /\ stack[i].args = stack[j].args)
          => stack[j].at.pos > stack[i].at.pos
    /\ \A i \in 1..Len(stack) :
          stack[i].fn = "parse_zero_or_more" =>
              \A k \in 2..Len(stack[i].trace) :
                  stack[i].trace[k].from.pos > stack[i].trace[k - 1].from.pos

\* the steps a run may take: the methods look at a token a bounded number of
\* times, whatever the token list
StepsPerToken == 40
StepBound == StepsPerToken * (Len(tokens) + 1)

\* C24: program(), and every other entry method, on every token list returns
\* or raises after a bounded number of steps: a run that has not finished
\* has a next step, and no run takes more than StepBound steps; on the way
\* every recursive call and every further iteration of a repetition begins
\* only after at least one more token has been consumed.
C24_Terminates ==
    /\ CallsAdvance
    /\ steps <= StepBound
    /\ ~Done => ENABLED Next

\* program() has failed on a malformed token list after recursive calls
C24_Witness ==
    /\ Done
    /\ entry.fn = "program"
    /\ ret.kind = "raise"
    /\ tokens # Program(given)

\* the methods that are grammar rules or combinators over them (every entry
\* but the cursor primitives called on their own)
RuleEntry == entry.fn \notin {"consume_token", "consume_token_or_fail"}

\* index of the first end-of-stream token of the token list, the length of
\* the list when it holds none
FirstEOF ==
    IF \E i \in 1..Len(tokens) : tokens[i].type = "EOF"
    THEN (CHOOSE i \in 1..Len(tokens) :
              /\ tokens[i].type = "EOF"
              /\ \A j \in 1..(i - 1) : tokens[j].type # "EOF") - 1
    ELSE Len(tokens)

\* C25: while program(), a rule or a combinator over rules runs from position
\* 0, the position never passes the first end-of-stream token of the token
\* list, nor the end of a list that holds none: no step moves the cursor
\* while the current token is the end of stream, and every call began and
\* ended at such a position.
C25_NeverPastEOF ==
    [][RuleEntry =>
         /\ pos' <= FirstEOF
         /\ pos' <= Len(tokens)
         /\ current_token.type = "EOF" => pos' <= pos
         /\ \A i \in 1..Len(stack') :
               /\ stack'[i].at.pos <= FirstEOF
               /\ \A k \in 1..Len(stack'[i].trace) :
                     stack'[i].trace[k].to.pos <= FirstEOF]_vars

\* program() has parsed a token list without an end-of-stream token up to
\* its end, and a rule has stopped at the end-of-stream token of a list
C25_Witness ==
    /\ Returned
    /\ RuleEntry
    /\ pos = FirstEOF
    /\ pos > 0
    /\ \/ entry.fn = "program" /\ pos = Len(tokens)
       \/ entry.fn = "statement" /\ pos < Len(tokens)

====
